---- MODULE Spec2Model ----
(***************************************************************************)
(* Model of the movement system of bevy_mod_wanderlust (src/systems.rs).   *)
(*                                                                         *)
(* Numbers: f32 quantities are modelled as integers, i.e. as multiples of  *)
(* one quantum of time / length / force.  Vec3 is a 3-tuple of integers.   *)
(* An Option is a sequence of length 0 (None) or 1 (Some).                 *)
(***************************************************************************)
EXTENDS Integers, Sequences, FiniteSets, TLC

(* ---------------------------------------------------------------------- *)
(* Bounds of the model                                                    *)
(* ---------------------------------------------------------------------- *)
\* largest elapsed time of one tick, in quanta
MaxDt == 2
\* largest number of colliders in the region swept by the ground cast
MaxColliders == 2

(* ---------------------------------------------------------------------- *)
(* Vec3 and f32 helpers (bevy::math)                                      *)
(* ---------------------------------------------------------------------- *)
ZERO == <<0, 0, 0>>

None == <<>>

Some(x) == <<x>>

Max(a, b) == IF a >= b THEN a ELSE b

Min(a, b) == IF a <= b THEN a ELSE b

VAdd(a, b) == <<a[1] + b[1], a[2] + b[2], a[3] + b[3]>>

VSub(a, b) == <<a[1] - b[1], a[2] - b[2], a[3] - b[3]>>

VNeg(a) == <<-a[1], -a[2], -a[3]>>

\* Vec3 * f32
VScale(a, k) == <<a[1] * k, a[2] * k, a[3] * k>>

\* Vec3 * Vec3 is the component-wise product
VMul(a, b) == <<a[1] * b[1], a[2] * b[2], a[3] * b[3]>>

Dot(a, b) == a[1] * b[1] + a[2] * b[2] + a[3] * b[3]

\* division rounding toward zero, as the quantised result of an f32 division
QuotT(a, b) == IF a >= 0 THEN a \div b ELSE -((-a) \div b)

\* integer square root, rounded down
ISqrt(n) == CHOOSE r \in 0..n : r * r <= n /\ (r + 1) * (r + 1) > n

\* Vec3::project_onto: rhs * (self . rhs) / (rhs . rhs)
ProjectOnto(a, rhs) ==
    LET k == Dot(a, rhs)
        d == Dot(rhs, rhs)
    IN  <<QuotT(rhs[1] * k, d), QuotT(rhs[2] * k, d), QuotT(rhs[3] * k, d)>>

\* Vec3::clamp_length_max: vectors longer than max are rescaled to length max
ClampLengthMax(a, max) ==
    LET len2 == Dot(a, a)
        len == ISqrt(len2)
    IN  IF len2 > max * max
        THEN <<QuotT(a[1] * max, len), QuotT(a[2] * max, len), QuotT(a[3] * max, len)>>
        ELSE a

\* Vec3::lerp(a, b, s) = a + (b - a) * s
Lerp(a, b, s) == VAdd(a, VScale(VSub(b, a), s))

\* (t - dt).max(0.0): a timer decays by the elapsed time, floored at zero
DecayNoFloor(t, dt) == t - dt

Decay(t, dt) == Max(t - dt, 0)

(* ---------------------------------------------------------------------- *)
(* ControllerSettings: the configurations the model runs under            *)
(* ---------------------------------------------------------------------- *)
\* the decay curves a configuration may name; progress is num / den in [0, 1]
JumpDecayFunction(name, num, den, x) ==
    IF name = "linear" THEN QuotT(x * (den - num), den) ELSE x

BaseSettings ==
    [ up_vector |-> <<0, 1, 0>>,
      float_cast_length |-> 3,
      max_ground_angle |-> 1,
      float_distance |-> 1,
      min_float_offset |-> -1,
      max_float_offset |-> 1,
      float_strength |-> 1,
      float_dampen |-> 1,
      gravity |-> 1,
      max_speed |-> 1,
      acceleration |-> 1,
      max_acceleration_force |-> 1,
      force_scale |-> 1,
      jump_force |-> 2,
      jump_initial_force |-> 2,
      jump_stop_force |-> 1,
      jump_time |-> 2,
      jump_decay_function |-> "linear",
      jump_buffer_duration |-> 1,
      coyote_time_duration |-> 2,
      extra_jumps |-> 1,
      jump_skip_ground_check_duration |-> 1,
      skip_ground_check_override |-> FALSE,
      upright_spring_strength |-> 1,
      upright_spring_damping |-> 1 ]

\* no coyote time, no extra jumps, a long post-jump skip window, a float
\* window that lies strictly above the target distance
StrictSettings ==
    [ BaseSettings EXCEPT
        !.float_distance = 0,
        !.min_float_offset = 2,
        !.max_float_offset = 3,
        !.jump_time = 1,
        !.jump_decay_function = "constant",
        !.jump_buffer_duration = 2,
        !.coyote_time_duration = 0,
        !.extra_jumps = 0,
        !.jump_skip_ground_check_duration = 2 ]

\* the ground check is switched off by the override
OverrideSettings ==
    [ BaseSettings EXCEPT
        !.skip_ground_check_override = TRUE,
        !.jump_skip_ground_check_duration = 0,
        !.coyote_time_duration = 1,
        !.extra_jumps = 2 ]

SettingsSet == {BaseSettings, StrictSettings, OverrideSettings}

\* a coyote window of several ticks, no extra jumps
LongCoyoteSettings ==
    [ BaseSettings EXCEPT
        !.coyote_time_duration = 4,
        !.extra_jumps = 0,
        !.jump_time = 1 ]

\* the up axis points along the negative y axis
InvertedSettings ==
    [ BaseSettings EXCEPT
        !.up_vector = <<0, -1, 0>>,
        !.extra_jumps = 0,
        !.jump_time = 1 ]

(* ---------------------------------------------------------------------- *)
(* The physics world as the system reads it (RapierContext, Velocity)     *)
(* ---------------------------------------------------------------------- *)
\* the controlled character's entity
Character == "character"

\* A collider in the region swept by the ground cast: its entity, the
\* shape cast's result against it (toi, status, and the angle between
\* normal1 and the up vector), whether it is a sensor, and the linvel of
\* its entity's Velocity component (None: the entity has none).
ColliderSet ==
    { [entity |-> Character, toi |-> 0, status |-> "Penetrating", angle |-> 0,
       sensor |-> FALSE, vel |-> None],
      [entity |-> "platform", toi |-> 1, status |-> "Converged", angle |-> 0,
       sensor |-> FALSE, vel |-> Some(<<1, 0, 0>>)],
      [entity |-> "platform", toi |-> 3, status |-> "Converged", angle |-> 1,
       sensor |-> FALSE, vel |-> None],
      [entity |-> "wall", toi |-> 1, status |-> "Converged", angle |-> 2,
       sensor |-> FALSE, vel |-> None],
      [entity |-> "wall", toi |-> 0, status |-> "Penetrating", angle |-> 0,
       sensor |-> FALSE, vel |-> None],
      [entity |-> "wall", toi |-> 0, status |-> "Converged", angle |-> 0,
       sensor |-> TRUE, vel |-> None] }

\* The colliders of one tick, in the order in which successive closest-hit
\* casts report them: nearest first, one collider per entity.
Worlds ==
    { w \in UNION { [1..n -> ColliderSet] : n \in 0..MaxColliders } :
        /\ \A i, j \in DOMAIN w : i < j => w[i].toi <= w[j].toi
        /\ \A i, j \in DOMAIN w : i # j => w[i].entity # w[j].entity }

\* The character's rigid body as read this tick: Velocity (linvel, angvel)
\* and, from the GlobalTransform, the axis and angle that rotate tf.up()
\* onto the up vector.
BodyStates ==
    { [linvel |-> ZERO, angvel |-> ZERO, to_goal_axis |-> ZERO, to_goal_angle |-> 0],
      [linvel |-> <<1, -2, 0>>, angvel |-> <<0, 0, 1>>,
       to_goal_axis |-> <<0, 0, 1>>, to_goal_angle |-> 1] }

\* the (Entity, Toi) pair a cast reports for a collider
Hit(c) == [entity |-> c.entity, toi |-> c.toi, status |-> c.status, angle |-> c.angle]

Entities(collisions) == { collisions[i].entity : i \in DOMAIN collisions }

\* QueryFilter::new().predicate(&|collider| collider != entity)
OrigPredicate(entity, collider) == collider # entity

CastShapeRepeating(world, max_toi, entity, collisions) ==
    LET ok == { i \in DOMAIN world :
                  /\ world[i].toi <= max_toi
                  /\ ~world[i].sensor
                  /\ world[i].entity # entity }
    IN  IF ok = {} THEN None
        ELSE Some(Hit(world[CHOOSE i \in ok : \A j \in ok : i <= j]))

\* RapierContext::cast_shape under the scan's filter: the closest collider
\* within max_toi that is no sensor and passes both predicates
CastShape(world, max_toi, entity, collisions) ==
    LET ok == { i \in DOMAIN world :
                  /\ world[i].toi <= max_toi
                  /\ ~world[i].sensor
                  /\ world[i].entity \notin Entities(collisions)
                  /\ OrigPredicate(entity, world[i].entity) }
    IN  IF ok = {} THEN None
        ELSE Some(Hit(world[CHOOSE i \in ok : \A j \in ok : i <= j]))

RECURSIVE ScanLoop(_, _, _, _)
ScanLoop(world, max_toi, entity, collisions) ==
    LET collision == CastShape(world, max_toi, entity, collisions)
    IN  IF collision # None
        THEN ScanLoop(world, max_toi, entity, Append(collisions, collision[1]))
        ELSE collisions

\* intersections_with_shape_cast: clears the scratch list, then collects
\* hits until a cast reports none
IntersectionsWithShapeCast(world, max_toi, entity, collisions) ==
    ScanLoop(world, max_toi, entity, <<>>)

\* the filter of the ground contact selection
QualifiesByAngle(i, settings) == i.angle <= settings.max_ground_angle

Qualifies(i, settings) ==
    i.status # "Penetrating" /\ i.angle <= settings.max_ground_angle

\* ground_casts.iter().filter(..).next().cloned()
FirstQualifying(ground_casts, settings) ==
    LET ok == { k \in DOMAIN ground_casts : Qualifies(ground_casts[k], settings) }
    IN  IF ok = {} THEN None
        ELSE Some(ground_casts[CHOOSE k \in ok : \A j \in ok : k <= j])

StaleScanContact(ground_casts, settings) == FirstQualifying(ground_casts, settings)

\* the contact of a tick whose scan is skipped: `None`, whatever the scratch
\* list still holds
NoScanContact(ground_casts, settings) == None

\* velocities.get(ground).ok(): the linvel of the ground entity, if it has one
GroundVel(world, ground) ==
    LET at == { i \in DOMAIN world : world[i].entity = ground }
    IN  IF at = {} THEN None ELSE world[CHOOSE i \in at : TRUE].vel

(* ---------------------------------------------------------------------- *)
(* State                                                                  *)
(* ---------------------------------------------------------------------- *)
VARIABLES
    settings,      \* ControllerSettings of the character (read only)
    controller,    \* ControllerState
    input,         \* ControllerInput
    body,          \* ExternalImpulse
    ground_casts,  \* the system's Local scratch list of (Entity, Toi)
    last,          \* what the latest run of the system read and computed
    tally,         \* counts of presses and jumps, where a specification keeps them
    probe,         \* the ground scan in progress, where it is taken cast by cast
    mate,          \* a second controlled character, where there is one
    frame          \* the run of the system in progress over several characters

\* the variables only some specifications use
aux == <<tally, probe, mate, frame>>

vars == <<settings, controller, input, body, ground_casts, last, tally, probe, mate, frame>>

(* ---------------------------------------------------------------------- *)
(* The decisions of one pass of movement()                                *)
(* ---------------------------------------------------------------------- *)
\* if dt == 0.0 { return; }
NeverSkipTick(dt) == FALSE

SkipTick(dt) == dt = 0

\* controller.skip_ground_check_timer == 0.0 && !settings.skip_ground_check_override
ScanDueByTimer(skip_ground_check_timer, override) == skip_ground_check_timer = 0

ScanDue(skip_ground_check_timer, override) ==
    skip_ground_check_timer = 0 /\ ~override

\* if ctx.contacts_with(entity).next().is_some() { skip_ground_check_timer = 0.0 }
ContactIgnored(contact, skip_ground_check_timer) == skip_ground_check_timer

ContactSkipTimer(contact, skip_ground_check_timer) ==
    IF contact THEN 0 ELSE skip_ground_check_timer

\* float_offset.map(|offset| offset <= max && offset >= min).unwrap_or(false)
GroundedUpperOnly(float_offset, s) ==
    float_offset # None /\ float_offset[1] <= s.max_float_offset

Grounded(float_offset, s) ==
    /\ float_offset # None
    /\ float_offset[1] <= s.max_float_offset
    /\ float_offset[1] >= s.min_float_offset

JumpHeld(jumping, jump_pressed_last_frame) == jumping

\* let just_jumped = input.jumping && !controller.jump_pressed_last_frame
JustJumped(jumping, jump_pressed_last_frame) == jumping /\ ~jump_pressed_last_frame

\* (just_jumped || jump_buffer_timer > 0.0)
\*     && (grounded || coyote_timer > 0.0 || remaining_jumps > 0)
TriggerAnywhere(just_jumped, jump_buffer_timer, grounded, coyote_timer, remaining_jumps) ==
    just_jumped \/ jump_buffer_timer > 0

TriggerPressOnly(just_jumped, jump_buffer_timer, grounded, coyote_timer, remaining_jumps) ==
    just_jumped /\ (grounded \/ coyote_timer > 0 \/ remaining_jumps > 0)

TriggerNeedsGround(just_jumped, jump_buffer_timer, grounded, coyote_timer, remaining_jumps) ==
    (just_jumped \/ jump_buffer_timer > 0) /\ grounded

Trigger(just_jumped, jump_buffer_timer, grounded, coyote_timer, remaining_jumps) ==
    /\ just_jumped \/ jump_buffer_timer > 0
    /\ grounded \/ coyote_timer > 0 \/ remaining_jumps > 0

\* if !grounded && controller.coyote_timer == 0.0 { remaining_jumps -= 1 }
ConsumesChargeAirborne(grounded, coyote_timer) == ~grounded

ConsumesCharge(grounded, coyote_timer) == ~grounded /\ coyote_timer = 0

\* controller.jump_buffer_timer = settings.jump_buffer_duration
BufferFromCoyoteDuration(s) == s.coyote_time_duration

BufferNeverSet(s) == 0

BufferOnPress(s) == s.jump_buffer_duration

\* controller.skip_ground_check_timer = settings.jump_skip_ground_check_duration
SkipAfterTrigger(s) == s.jump_skip_ground_check_duration

\* controller.jump_timer = settings.jump_time
JumpTimerFromSkipDuration(s) == s.jump_skip_ground_check_duration

JumpTimerOnTrigger(s) == s.jump_time

\* float_spring = Vec3::ZERO in the ascent branch
AscentKeepsFloatSpring(float_spring) == float_spring

AscentFloatSpring(float_spring) == ZERO

\* input.custom_impulse = Vec3::ZERO; input.custom_torque = Vec3::ZERO
CustomKept(v) == v

ConsumedCustom(v) == ZERO

\* the observation while the system has not run in the current frame
Idle ==
    [ ran |-> FALSE, before |-> None, dt |-> 0, scanned |-> FALSE, contact |-> FALSE,
      world |-> <<>>, ground_cast |-> None, grounded |-> FALSE, just_jumped |-> FALSE,
      triggered |-> FALSE, jump_kind |-> "none", spring |-> ZERO,
      float_spring |-> ZERO, linvel |-> ZERO, jump |-> ZERO ]

\* what a pass finds when it starts
Before(c, in, b, casts) ==
    [ controller |-> c, input |-> in, body |-> b, ground_casts |-> casts ]

\* the observation left by a pass that returned at dt == 0.0
Skipped(c, in, b, casts) ==
    [Idle EXCEPT !.ran = TRUE, !.before = Some(Before(c, in, b, casts))]

(* ---------------------------------------------------------------------- *)
(* One pass of the loop body of movement() for the character, dt > 0      *)
(* ---------------------------------------------------------------------- *)
MoveEntity(entity, s, c, in, b, casts, dt, world, contact, phys) ==
    LET up == s.up_vector
        \* Get the ground and velocities
        scan == ScanDue(c.skip_ground_check_timer, s.skip_ground_check_override)
        casts1 == IF scan
                  THEN IntersectionsWithShapeCast(world, s.float_cast_length, entity, casts)
                  ELSE casts
        ground_cast == IF scan THEN FirstQualifying(casts1, s) ELSE NoScanContact(casts1, s)
        skip1 == IF scan THEN c.skip_ground_check_timer
                 ELSE Decay(c.skip_ground_check_timer, dt)
        \* If we hit something, just get back up instead of waiting.
        skip2 == ContactSkipTimer(contact, skip1)
        float_offset == IF ground_cast # None
                        THEN Some(ground_cast[1].toi - s.float_distance)
                        ELSE None
        grounded == Grounded(float_offset, s)
        remaining1 == IF grounded THEN s.extra_jumps ELSE c.remaining_jumps
        coyote1 == IF grounded THEN s.coyote_time_duration ELSE Decay(c.coyote_timer, dt)
        \* Gravity
        gravity == IF ground_cast = None THEN VScale(up, (-s.gravity) * dt) ELSE ZERO
        \* Collect velocities
        ground_vel == IF ground_cast # None
                      THEN GroundVel(world, ground_cast[1].entity)
                      ELSE None
        ground_linvel == IF ground_vel # None THEN ground_vel[1] ELSE ZERO
        \* Calculate "floating" force
        spring == IF ground_cast # None
                  THEN LET vel_align == Dot(VNeg(up), phys.linvel)
                           ground_vel_align == Dot(VNeg(up), ground_linvel)
                           relative_align == vel_align - ground_vel_align
                           snap == ground_cast[1].toi - s.float_distance
                       IN  VScale(VNeg(up), (snap * s.float_strength)
                                              - (relative_align * s.float_dampen))
                  ELSE ZERO
        \* Calculate horizontal movement force
        dir == ClampLengthMax(in.movement, 1)
        input_goal_vel == VScale(dir, s.max_speed)
        goal_vel == Lerp(c.last_goal_velocity, VAdd(input_goal_vel, ground_linvel),
                         Min(s.acceleration * dt, 1))
        needed_accel == ClampLengthMax(VSub(goal_vel, phys.linvel), s.max_acceleration_force)
        movement == VScale(needed_accel, s.force_scale)
        \* Jump buffering
        just_jumped == JustJumped(in.jumping, c.jump_pressed_last_frame)
        buffer1 == IF grounded THEN c.jump_buffer_timer
                   ELSE IF just_jumped THEN BufferOnPress(s)
                   ELSE Decay(c.jump_buffer_timer, dt)
        \* Calculate jump force
        jump_kind == IF c.jump_timer > 0 /\ ~grounded
                     THEN (IF ~in.jumping THEN "stop" ELSE "ascent")
                     ELSE "none"
        jump_timer1 == IF jump_kind = "stop" THEN 0
                       ELSE IF jump_kind = "ascent" THEN Decay(c.jump_timer, dt)
                       ELSE c.jump_timer
        jump0 == IF jump_kind = "stop"
                 THEN VScale(ProjectOnto(phys.linvel, up), -s.jump_stop_force)
                 ELSE IF jump_kind = "ascent"
                 THEN VScale(up, JumpDecayFunction(s.jump_decay_function,
                                     s.jump_time - jump_timer1, s.jump_time,
                                     s.jump_force * dt))
                 ELSE ZERO
        float_spring1 == IF jump_kind = "ascent" THEN AscentFloatSpring(spring) ELSE spring
        \* Trigger a jump
        trigger == Trigger(just_jumped, buffer1, grounded, coyote1, remaining1)
        remaining2 == IF trigger /\ ConsumesCharge(grounded, coyote1)
                      THEN remaining1 - 1 ELSE remaining1
        buffer2 == IF trigger THEN 0 ELSE buffer1
        jump_timer2 == IF trigger THEN JumpTimerOnTrigger(s) ELSE jump_timer1
        skip3 == IF trigger THEN SkipAfterTrigger(s) ELSE skip2
        jump == IF trigger
                THEN VAdd(VScale(VMul(phys.linvel, up), -1), VScale(up, s.jump_initial_force))
                ELSE jump0
        float_spring == IF trigger THEN ZERO ELSE float_spring1
        \* Calculate force to stay upright
        upright == VScale(VSub(VScale(phys.to_goal_axis,
                                      phys.to_goal_angle * s.upright_spring_strength),
                               VScale(phys.angvel, s.upright_spring_damping)), dt)
    IN  [ controller |->
            [ remaining_jumps |-> remaining2,
              coyote_timer |-> coyote1,
              jump_buffer_timer |-> buffer2,
              jump_timer |-> jump_timer2,
              skip_ground_check_timer |-> skip3,
              last_goal_velocity |-> goal_vel,
              jump_pressed_last_frame |-> in.jumping ],
          input |->
            [ in EXCEPT !.custom_impulse = ConsumedCustom(in.custom_impulse),
                        !.custom_torque = ConsumedCustom(in.custom_torque) ],
          body |->
            [ impulse |-> VAdd(VAdd(VAdd(VAdd(movement, jump), float_spring), gravity),
                               in.custom_impulse),
              torque_impulse |-> VAdd(upright, in.custom_torque) ],
          ground_casts |-> casts1,
          last |->
            [ ran |-> TRUE, before |-> Some(Before(c, in, b, casts)), dt |-> dt,
              scanned |-> scan, contact |-> contact, world |-> world, ground_cast |-> ground_cast, grounded |-> grounded,
              just_jumped |-> just_jumped, triggered |-> trigger,
              jump_kind |-> jump_kind, spring |-> spring,
              float_spring |-> float_spring, linvel |-> phys.linvel, jump |-> jump ] ]

\* the body of the loop for the one character of the frame loop
MoveOne(s, c, in, b, casts, dt, world, contact, phys) ==
    MoveEntity(Character, s, c, in, b, casts, dt, world, contact, phys)

(* ---------------------------------------------------------------------- *)
(* Specification: the frame loop                                          *)
(* ---------------------------------------------------------------------- *)
\* what the game may write into ControllerInput
InputSet ==
    [ movement : {ZERO}, jumping : BOOLEAN,
      custom_impulse : {ZERO}, custom_torque : {ZERO} ]
    \cup
    [ movement : {<<0, 0, -3>>}, jumping : BOOLEAN,
      custom_impulse : {<<0, 1, 0>>}, custom_torque : {<<1, 0, 0>>} ]

Init ==
    /\ settings \in SettingsSet
    /\ controller \in
         [ remaining_jumps : 0..settings.extra_jumps,
           coyote_timer : {0},
           jump_buffer_timer : {0},
           jump_timer : {0},
           skip_ground_check_timer : {0},
           last_goal_velocity : {ZERO},
           jump_pressed_last_frame : {FALSE} ]
    /\ input = [ movement |-> ZERO, jumping |-> FALSE,
                 custom_impulse |-> ZERO, custom_torque |-> ZERO ]
    /\ body = [ impulse |-> ZERO, torque_impulse |-> ZERO ]
    /\ ground_casts = <<>>
    /\ last = Idle
    /\ tally = None /\ probe = None /\ mate = None /\ frame = None

\* the game writes one of `inputs` into the character's ControllerInput
WriteInput(inputs) ==
    /\ ~last.ran
    /\ input' \in inputs
    /\ input' # input
    /\ UNCHANGED <<settings, controller, body, ground_casts, last>>

\* the game writes the character's ControllerInput before the system runs
SetInput == WriteInput(InputSet) /\ UNCHANGED aux

\* one run of the movement system over the one character of the query, with
\* the elapsed time, the world and the rigid body drawn from the given sets
RunMovement(dts, worlds, bodies) ==
    /\ ~last.ran
    /\ \E dt \in dts :
        IF SkipTick(dt)
        THEN /\ last' = Skipped(controller, input, body, ground_casts)
             /\ UNCHANGED <<settings, controller, input, body, ground_casts>>
        ELSE \E world \in worlds, contact \in BOOLEAN, phys \in bodies :
             \E r \in {MoveOne(settings, controller, input, body, ground_casts,
                                dt, world, contact, phys)} :
                 /\ controller' = r.controller
                 /\ input' = r.input
                 /\ body' = r.body
                 /\ ground_casts' = r.ground_casts
                 /\ last' = r.last
                 /\ UNCHANGED settings

\* one run of the movement system
Movement == RunMovement(0..MaxDt, Worlds, BodyStates) /\ UNCHANGED aux

\* the physics engine steps: it applies the impulses and clears them
PhysicsStep ==
    /\ last.ran
    /\ body' = [ impulse |-> ZERO, torque_impulse |-> ZERO ]
    /\ last' = Idle
    /\ UNCHANGED <<settings, controller, input, ground_casts>>
    /\ UNCHANGED aux

Next == SetInput \/ Movement \/ PhysicsStep

Spec == Init /\ [][Next]_vars

(* ---------------------------------------------------------------------- *)
(* The ground scan, cast by cast                                          *)
(* ---------------------------------------------------------------------- *)
\* ControllerState and ControllerInput of a character that has not moved yet
Spawned(s) ==
    [ remaining_jumps |-> s.extra_jumps, coyote_timer |-> 0,
      jump_buffer_timer |-> 0, jump_timer |-> 0, skip_ground_check_timer |-> 0,
      last_goal_velocity |-> ZERO, jump_pressed_last_frame |-> FALSE ]

NoInput ==
    [ movement |-> ZERO, jumping |-> FALSE,
      custom_impulse |-> ZERO, custom_torque |-> ZERO ]

NoImpulse == [ impulse |-> ZERO, torque_impulse |-> ZERO ]

\* a call of intersections_with_shape_cast about to start over `world`,
\* handed the scratch list `collisions`
Call(world, collisions) ==
    [ pc |-> "clear", world |-> world, casts |-> 0, before |-> collisions ]

InitScan ==
    /\ settings \in SettingsSet
    /\ controller = Spawned(settings)
    /\ input = NoInput
    /\ body = NoImpulse
    /\ ground_casts = <<>>
    /\ last = Idle
    /\ probe \in { Call(w, <<>>) : w \in Worlds }
    /\ tally = None /\ mate = None /\ frame = None

\* collisions.clear()
ScanClear ==
    /\ probe.pc = "clear"
    /\ ground_casts' = <<>>
    /\ probe' = [probe EXCEPT !.pc = "loop"]
    /\ UNCHANGED <<settings, controller, input, body, last, tally, mate, frame>>

\* one turn of the loop in which cast_shape reports a collider
ScanPush ==
    /\ probe.pc = "loop"
    /\ probe.casts <= MaxColliders + 1
    /\ \E collision \in {CastShape(probe.world, settings.float_cast_length,
                                  Character, ground_casts)} :
        /\ collision # None
        /\ ground_casts' = Append(ground_casts, collision[1])
        /\ probe' = [probe EXCEPT !.casts = @ + 1]
    /\ UNCHANGED <<settings, controller, input, body, last, tally, mate, frame>>

\* the turn of the loop in which cast_shape reports nothing: break
ScanBreak ==
    /\ probe.pc = "loop"
    /\ probe.casts <= MaxColliders + 1
    /\ CastShape(probe.world, settings.float_cast_length,
                 Character, ground_casts) = None
    /\ probe' = [probe EXCEPT !.pc = "done", !.casts = @ + 1]
    /\ UNCHANGED <<settings, controller, input, body, ground_casts, last, tally, mate, frame>>

\* the next tick's call, over the colliders of that tick, with the scratch
\* list as the previous call left it
ScanAgain ==
    /\ probe.pc = "done"
    /\ probe' \in { Call(w, ground_casts) : w \in Worlds }
    /\ UNCHANGED <<settings, controller, input, body, ground_casts, last, tally, mate, frame>>

NextScan == ScanClear \/ ScanPush \/ ScanBreak \/ ScanAgain

\* a call, once started, runs on until it returns
SpecScan == InitScan /\ [][NextScan]_vars /\ WF_vars(ScanClear \/ ScanPush \/ ScanBreak)

(* ---------------------------------------------------------------------- *)
(* One run of the system over two characters                              *)
(* ---------------------------------------------------------------------- *)
Mate == "mate"

Both == {Character, Mate}

\* ControllerState right after a jump from the ground
Launched(s) ==
    [ Spawned(s) EXCEPT !.coyote_timer = s.coyote_time_duration,
                        !.jump_timer = s.jump_time,
                        !.skip_ground_check_timer = s.jump_skip_ground_check_duration,
                        !.jump_pressed_last_frame = TRUE ]

\* the components of one character the query hands to the loop body
Components(s, c, in, b) == [ settings |-> s, controller |-> c, input |-> in, body |-> b ]

\* the components of a character as the state holds them
Of(entity) ==
    IF entity = Character THEN Components(settings, controller, input, body) ELSE mate

\* the characters a run can find at its start
Characters ==
    UNION { { Components(s, c, in, NoImpulse) :
                c \in {Spawned(s), Launched(s)},
                in \in { i \in InputSet : i.movement # ZERO } } :
            s \in SettingsSet }

\* the colliders `self` can have under it when `other` moves at `vel`
PairWorlds(self, other, vel) ==
    LET own == [entity |-> self, toi |-> 0, status |-> "Penetrating", angle |-> 0,
                sensor |-> FALSE, vel |-> None]
        top == [entity |-> other, toi |-> 1, status |-> "Converged", angle |-> 0,
                sensor |-> FALSE, vel |-> Some(vel)]
        platform == [entity |-> "platform", toi |-> 1, status |-> "Converged",
                     angle |-> 0, sensor |-> FALSE, vel |-> Some(<<1, 0, 0>>)]
    IN  { <<>>, <<platform>>, <<top>>, <<own, top>> }

\* the elapsed time and the physics context of one run, read only
Frames ==
    UNION { [ dt : 0..MaxDt,
              phys : {[e \in Both |-> IF e = Character THEN pc ELSE pm]},
              world : { [e \in Both |-> IF e = Character THEN wc ELSE wm] :
                          wc \in PairWorlds(Character, Mate, pm.linvel),
                          wm \in PairWorlds(Mate, Character, pc.linvel) },
              contact : { [e \in Both |-> k] : k \in BOOLEAN } ] :
            pc \in BodyStates, pm \in BodyStates }

InitPair ==
    /\ \E a \in Characters :
          /\ settings = a.settings /\ controller = a.controller
          /\ input = a.input /\ body = a.body
    /\ mate \in Characters
    /\ ground_casts = <<>>
    /\ last = Idle
    /\ \E f \in Frames :
          frame = [ dt |-> f.dt, phys |-> f.phys, world |-> f.world, contact |-> f.contact,
                    todo |-> Both, start |-> [e \in Both |-> Of(e)] ]
    /\ tally = None /\ probe = None

\* the loop body for `entity`
MoveInFrame(entity) ==
    /\ IF SkipTick(frame.dt)
       THEN /\ frame' = [frame EXCEPT !.todo = {}]
            /\ UNCHANGED <<settings, controller, input, body, ground_casts, mate>>
       ELSE \E r \in {MoveEntity(entity, Of(entity).settings, Of(entity).controller,
                                  Of(entity).input, Of(entity).body, ground_casts,
                                  frame.dt, frame.world[entity], frame.contact[entity],
                                  frame.phys[entity])} :
            /\ ground_casts' = r.ground_casts
            /\ frame' = [frame EXCEPT !.todo = @ \ {entity}]
            /\ IF entity = Character
               THEN /\ controller' = r.controller
                    /\ input' = r.input
                    /\ body' = r.body
                    /\ UNCHANGED <<settings, mate>>
               ELSE /\ mate' = [mate EXCEPT !.controller = r.controller,
                                            !.input = r.input, !.body = r.body]
                    /\ UNCHANGED <<settings, controller, input, body>>
    /\ UNCHANGED <<last, tally, probe>>

\* the query yields the characters it has not yielded yet, in any order
MoveCharacter == Character \in frame.todo /\ MoveInFrame(Character)

MoveMate == Mate \in frame.todo /\ MoveInFrame(Mate)

NextPair == MoveCharacter \/ MoveMate

SpecPair == InitPair /\ [][NextPair]_vars

(* ---------------------------------------------------------------------- *)
(* The frame loop with presses and jumps counted                          *)
(* ---------------------------------------------------------------------- *)
MaxPresses == 2

JumpSettingsSet == SettingsSet \cup {LongCoyoteSettings, InvertedSettings}

\* at most one collider under the character, a moving body, no stick input
JumpWorlds == { w \in Worlds : Len(w) <= 1 }

JumpBodies == { b \in BodyStates : b.linvel # ZERO }

JumpInputs == { i \in InputSet : i.movement = ZERO }

\* the counts after a run that left the observation `seen`: rising edges
\* of the jump button the system has seen, jump triggers, and jump triggers
\* on the not-grounded ticks since the last grounded one
Count(t, seen) ==
    IF ~(seen.ran /\ seen.dt > 0) THEN t
    ELSE LET at == seen.before[1]
             edge == at.input.jumping /\ ~at.controller.jump_pressed_last_frame
         IN  [ presses |-> t.presses + (IF edge THEN 1 ELSE 0),
               jumps |-> t.jumps + (IF seen.triggered THEN 1 ELSE 0),
               air_jumps |-> IF seen.grounded THEN 0
                             ELSE t.air_jumps + (IF seen.triggered THEN 1 ELSE 0) ]

InitJumps ==
    /\ settings \in JumpSettingsSet
    /\ controller = Spawned(settings)
    /\ input = NoInput
    /\ body = NoImpulse
    /\ ground_casts = <<>>
    /\ last = Idle
    /\ tally = [ presses |-> 0, jumps |-> 0, air_jumps |-> 0 ]
    /\ probe = None /\ mate = None /\ frame = None

PressOrRelease == WriteInput(JumpInputs) /\ UNCHANGED aux

CountedMovement ==
    /\ RunMovement(0..MaxDt, JumpWorlds, JumpBodies)
    /\ tally' = Count(tally, last')
    /\ tally'.presses <= MaxPresses
    /\ UNCHANGED <<probe, mate, frame>>

NextJumps == PressOrRelease \/ CountedMovement \/ PhysicsStep

SpecJumps == InitJumps /\ [][NextJumps]_vars

(* ---------------------------------------------------------------------- *)
(* Properties                                                             *)
(* ---------------------------------------------------------------------- *)
\* the system has run in this frame with elapsed time > 0
Ticked == last.ran /\ last.dt > 0

\* the state the latest run started from
Pre == last.before[1]

\* a step that is one run of the movement system
TickStep == ~last.ran /\ last'.ran

Floor0(x) == IF x < 0 THEN 0 ELSE x

\* C1: remaining_jumps is never negative (the decrement at a jump trigger
\* never underflows) and never exceeds the configured extra_jumps.
C1_RemainingJumpsInRange ==
    /\ controller.remaining_jumps >= 0
    /\ controller.remaining_jumps <= settings.extra_jumps

\* a trigger in the air, with no coyote time left, has used up the last charge
C1_Witness ==
    /\ Ticked /\ last.triggered /\ ~last.grounded
    /\ controller.coyote_timer = 0
    /\ Pre.controller.remaining_jumps = 1
    /\ controller.remaining_jumps = 0

\* C2 as stated: after any tick, whatever the elapsed time, custom_impulse
\* and custom_torque are both zero.
C2_Original ==
    last.ran => input.custom_impulse = ZERO /\ input.custom_torque = ZERO

\* C2 amended: after any tick with elapsed time > 0, whatever the caller
\* put in beforehand, custom_impulse and custom_torque are both zero.
C2_CustomConsumed ==
    Ticked => input.custom_impulse = ZERO /\ input.custom_torque = ZERO

C2_Witness ==
    /\ Ticked
    /\ Pre.input.custom_impulse # ZERO /\ Pre.input.custom_torque # ZERO
    /\ input.custom_impulse = ZERO /\ input.custom_torque = ZERO

\* C3 as stated, the part the rest of it depends on: a contact during a tick
\* with elapsed time > 0 leaves the skip timer at zero at the end of the
\* tick, whatever else happens in the tick (a jump trigger included).
C3_Original ==
    Ticked /\ last.contact => controller.skip_ground_check_timer = 0

\* C3 amended: a contact during a tick with elapsed time > 0 in which no
\* jump triggers leaves the skip timer at zero at the end of the tick (a
\* trigger in the same tick sets it to the post-jump skip duration instead);
\* nothing but a run of the system changes the timer, and a run with elapsed
\* time > 0 that starts with the timer at zero performs the scan unless
\* skip_ground_check_override is set.
C3_ContactClearsSkipTimer ==
    /\ [](Ticked /\ last.contact =>
            controller.skip_ground_check_timer =
                IF last.triggered THEN settings.jump_skip_ground_check_duration ELSE 0)
    /\ [][~TickStep => controller' = controller /\ settings' = settings]_vars
    /\ [][TickStep /\ last'.dt > 0 =>
            (last'.scanned <=> /\ controller.skip_ground_check_timer = 0
                               /\ ~settings.skip_ground_check_override)]_vars

\* a contact cut a running skip window short
C3_Witness ==
    /\ Ticked /\ last.contact /\ ~last.triggered
    /\ Pre.controller.skip_ground_check_timer > last.dt
    /\ controller.skip_ground_check_timer = 0
    /\ ~settings.skip_ground_check_override

\* C4 as stated: on every tick with an active jump force (ascent thrust,
\* jump-stop force or trigger impulse) the float spring term of the impulse
\* is zero.
C4_Original ==
    Ticked /\ (last.jump_kind # "none" \/ last.triggered) => last.float_spring = ZERO

\* C4 amended: on every tick with the ascent thrust or the trigger impulse
\* active the float spring term of the impulse is zero, also when a contact
\* was selected and the character is not grounded; on a tick with only the
\* jump-stop force the term is the spring force as computed.
C4_FloatSpringZeroed ==
    Ticked =>
        /\ (last.jump_kind = "ascent" \/ last.triggered) => last.float_spring = ZERO
        /\ (last.jump_kind = "stop" /\ ~last.triggered) => last.float_spring = last.spring

\* ascent over a selected contact that is out of the float window
C4_Witness ==
    /\ Ticked /\ last.jump_kind = "ascent" /\ ~last.triggered
    /\ last.ground_cast # None /\ ~last.grounded
    /\ last.spring # ZERO /\ last.float_spring = ZERO

\* C5: a tick with elapsed time 0 changes nothing: ControllerState,
\* ControllerInput, the output impulse and torque (and the scratch list) are
\* as before the tick.
C5_ZeroDtNoMutation ==
    last.ran /\ last.dt = 0 =>
        /\ controller = Pre.controller
        /\ input = Pre.input
        /\ body = Pre.body
        /\ ground_casts = Pre.ground_casts

\* a zero-dt tick with a pending press, pending custom inputs and running timers
C5_Witness ==
    /\ last.ran /\ last.dt = 0
    /\ input.custom_impulse # ZERO /\ input.custom_torque # ZERO
    /\ input.jumping /\ ~controller.jump_pressed_last_frame
    /\ controller.coyote_timer > 0 /\ controller.jump_timer > 0
    /\ controller.skip_ground_check_timer > 0

\* the colliders of the world the ground cast can report: not the character,
\* no sensors, within the cast length
Visible(world) ==
    { i \in DOMAIN world :
        /\ world[i].entity # Character
        /\ ~world[i].sensor
        /\ world[i].toi <= settings.float_cast_length }

QualifyingUnder(world) ==
    { i \in Visible(world) :
        world[i].status # "Penetrating" /\ world[i].angle <= settings.max_ground_angle }

InFloatWindow(toi) ==
    /\ toi - settings.float_distance >= settings.min_float_offset
    /\ toi - settings.float_distance <= settings.max_float_offset

TimerNames ==
    {"coyote_timer", "jump_buffer_timer", "jump_timer", "skip_ground_check_timer"}

Duration(name) ==
    CASE name = "coyote_timer" -> settings.coyote_time_duration
      [] name = "jump_buffer_timer" -> settings.jump_buffer_duration
      [] name = "jump_timer" -> settings.jump_time
      [] name = "skip_ground_check_timer" -> settings.jump_skip_ground_check_duration

\* the timer kept its value, decayed by dt floored at zero, or was set to
\* its own configured duration
Regular(name) ==
    controller[name] \in { Pre.controller[name],
                           Floor0(Pre.controller[name] - last.dt),
                           Duration(name) }

\* C7 as stated: across a tick every timer keeps its value, decays by the
\* elapsed time floored at zero, or is set to its own configured duration.
C7_Original == last.ran => \A name \in TimerNames : Regular(name)

\* C7 amended: across a tick every timer keeps its value, decays by the
\* elapsed time floored at zero, is set to its own configured duration, or
\* is forced to zero: the jump-buffer timer by a jump trigger, the ascent
\* timer by an early release, the skip timer by a contact.  The coyote
\* timer is never forced to zero.
C7_TimerChanges ==
    last.ran =>
        /\ Regular("coyote_timer")
        /\ Regular("jump_buffer_timer")
             \/ (controller.jump_buffer_timer = 0 /\ last.triggered)
        /\ Regular("jump_timer")
             \/ (controller.jump_timer = 0 /\ last.jump_kind = "stop")
        /\ Regular("skip_ground_check_timer")
             \/ (controller.skip_ground_check_timer = 0 /\ last.contact)

\* a contact forced a running skip timer to zero: neither kept, decayed by
\* dt, nor set to its duration
C7_Witness ==
    /\ Ticked
    /\ ~Regular("skip_ground_check_timer")
    /\ controller.skip_ground_check_timer = 0 /\ last.contact

\* C8: every timer is non-negative at the end of each tick.
C8_TimersNonNegative ==
    \A name \in TimerNames : controller[name] >= 0

\* the elapsed time exceeded what was left on running timers
C8_Witness ==
    /\ Ticked
    /\ Pre.controller.coyote_timer > 0 /\ Pre.controller.coyote_timer < last.dt
    /\ controller.coyote_timer = 0
    /\ Pre.controller.jump_timer > 0 /\ Pre.controller.jump_timer < last.dt
    /\ controller.jump_timer = 0

\* C9: the jump ascent timer is at most the configured jump_time.
C9_JumpTimerBounded == controller.jump_timer <= settings.jump_time

\* a jump re-triggered during an ascent: the timer is back at jump_time
C9_Witness ==
    /\ Ticked /\ last.triggered
    /\ Pre.controller.jump_timer > 0
    /\ Pre.controller.jump_timer < settings.jump_time
    /\ controller.jump_timer = settings.jump_time

\* C10: a trigger in the air with the coyote timer still > 0 after this
\* tick's decay leaves remaining_jumps unchanged; a charge is consumed, and
\* then exactly one, only by a trigger in the air with the coyote timer at 0.
C10_CoyoteJumpIsFree ==
    Ticked =>
        /\ (last.triggered /\ ~last.grounded /\ controller.coyote_timer > 0)
             => controller.remaining_jumps = Pre.controller.remaining_jumps
        /\ controller.remaining_jumps < Pre.controller.remaining_jumps
             => /\ last.triggered /\ ~last.grounded /\ controller.coyote_timer = 0
                /\ controller.remaining_jumps = Pre.controller.remaining_jumps - 1

\* a coyote jump with a charge in hand
C10_Witness ==
    /\ Ticked /\ last.triggered /\ ~last.grounded
    /\ controller.coyote_timer > 0
    /\ Pre.controller.coyote_timer = settings.coyote_time_duration
    /\ Pre.controller.remaining_jumps > 0
    /\ controller.remaining_jumps = Pre.controller.remaining_jumps

\* the rising edge of the jump button, from the state the run started from
RisingEdge == Pre.input.jumping /\ ~Pre.controller.jump_pressed_last_frame

\* C11: a rising edge on an airborne tick on which no jump is eligible (not
\* grounded, coyote timer 0, no charges) triggers nothing and sets the
\* jump-buffer timer to its configured duration; the buffer timer changes
\* only in a tick, and a later tick that starts with it greater than zero and
\* finds the character grounded triggers a jump, with or without a new
\* press, and leaves the buffer timer at zero.
C11_BufferedJump ==
    Ticked =>
        /\ (RisingEdge /\ ~last.grounded /\ controller.coyote_timer = 0
                /\ Pre.controller.remaining_jumps = 0)
             => /\ ~last.triggered
                /\ controller.jump_buffer_timer = settings.jump_buffer_duration
        /\ (last.grounded /\ Pre.controller.jump_buffer_timer > 0)
             => /\ last.triggered
                /\ controller.jump_buffer_timer = 0
                /\ controller.jump_timer = settings.jump_time

\* a press buffered in the air, partly run down, fires on landing with the
\* button no longer a rising edge
C11_Witness ==
    /\ Ticked /\ last.grounded /\ ~RisingEdge
    /\ Pre.controller.jump_buffer_timer > 0
    /\ Pre.controller.jump_buffer_timer < settings.jump_buffer_duration
    /\ Pre.controller.remaining_jumps = 0
    /\ last.triggered /\ controller.jump_buffer_timer = 0

\* C12 as stated: on a tick with no charges, airborne, coyote timer 0 and a
\* jump requested, no jump triggers and the jump state remains Idle: the
\* buffer timer and the ascent timer, zero before the tick, are zero after it.
C12_Original ==
    (/\ Ticked /\ Pre.input.jumping /\ ~last.grounded
     /\ controller.coyote_timer = 0 /\ Pre.controller.remaining_jumps = 0
     /\ Pre.controller.jump_buffer_timer = 0 /\ Pre.controller.jump_timer = 0)
        => /\ ~last.triggered
           /\ controller.jump_buffer_timer = 0
           /\ controller.jump_timer = 0

\* C12 amended: on a tick with no charges, airborne, coyote timer 0 and a
\* jump requested, no jump triggers (ascent timer, skip timer and
\* remaining_jumps are not set by a trigger) and the jump state does not
\* become Ascending; when the request is a rising edge the state becomes
\* Buffered, the buffer timer being set to its configured duration, and
\* otherwise the buffer timer only runs down.
C12_NoJumpWithoutCharge ==
    (/\ Ticked /\ Pre.input.jumping /\ ~last.grounded
     /\ controller.coyote_timer = 0 /\ Pre.controller.remaining_jumps = 0)
        => /\ ~last.triggered
           /\ controller.remaining_jumps = 0
           /\ controller.jump_timer <= Pre.controller.jump_timer
           /\ controller.skip_ground_check_timer
                 <= Pre.controller.skip_ground_check_timer
           /\ controller.jump_buffer_timer
                 = IF RisingEdge THEN settings.jump_buffer_duration
                   ELSE Floor0(Pre.controller.jump_buffer_timer - last.dt)

\* a press from the Idle state, in the air without charges, is buffered
C12_Witness ==
    /\ Ticked /\ RisingEdge /\ ~last.grounded
    /\ controller.coyote_timer = 0 /\ Pre.controller.remaining_jumps = 0
    /\ Pre.controller.jump_buffer_timer = 0 /\ Pre.controller.jump_timer = 0
    /\ ~last.triggered
    /\ controller.jump_buffer_timer > 0 /\ controller.jump_timer = 0

\* C13: for every list of candidates a scan collected, the selected contact
\* is the first entry in scan order that is not penetrating and whose
\* normal is within max_ground_angle of the up axis, and none is selected
\* exactly when no entry qualifies.
C13_FirstQualifyingSelected ==
    (Ticked /\ last.scanned) =>
        LET ok(k) == /\ ground_casts[k].status # "Penetrating"
                     /\ ground_casts[k].angle <= settings.max_ground_angle
        IN  /\ last.ground_cast = None <=> \A k \in DOMAIN ground_casts : ~ok(k)
            /\ last.ground_cast # None =>
                  \E k \in DOMAIN ground_casts :
                      /\ last.ground_cast[1] = ground_casts[k]
                      /\ ok(k)
                      /\ \A j \in 1..(k - 1) : ~ok(j)

\* the first candidate is penetrating and the second one is selected
C13_Witness ==
    /\ Ticked /\ last.scanned
    /\ Len(ground_casts) = 2
    /\ ground_casts[1].status = "Penetrating"
    /\ ground_casts[1].angle <= settings.max_ground_angle
    /\ last.ground_cast = Some(ground_casts[2])

\* C16 as stated: on a tick with elapsed time > 0 the scan is skipped if the
\* skip timer is greater than zero and the override is not set, and is
\* performed otherwise (skip timer zero, or the override forcing a check);
\* on a skipped tick no contact is selected and the skip timer decreases by
\* the elapsed time, floored at zero.
C16_Original ==
    Ticked =>
        /\ ~last.scanned <=> /\ Pre.controller.skip_ground_check_timer > 0
                             /\ ~settings.skip_ground_check_override
        /\ ~last.scanned =>
              /\ last.ground_cast = None
              /\ controller.skip_ground_check_timer
                    = Floor0(Pre.controller.skip_ground_check_timer - last.dt)

\* C16 amended: on a tick with elapsed time > 0 the scan is performed if the
\* skip timer is zero and the override is not set, and is skipped otherwise
\* (skip timer greater than zero, or the override, which suppresses the
\* check); on a skipped tick no contact is selected and the skip timer
\* decreases by the elapsed time, floored at zero, after which a contact
\* zeroes it and a jump trigger sets it to the post-jump skip duration.
C16_ScanSkipped ==
    Ticked =>
        /\ last.scanned <=> /\ Pre.controller.skip_ground_check_timer = 0
                            /\ ~settings.skip_ground_check_override
        /\ ~last.scanned =>
              /\ last.ground_cast = None /\ ~last.grounded
              /\ controller.skip_ground_check_timer
                    = IF last.triggered THEN settings.jump_skip_ground_check_duration
                      ELSE IF last.contact THEN 0
                      ELSE Floor0(Pre.controller.skip_ground_check_timer - last.dt)

\* the override suppresses the scan over ground that would qualify
C16_Witness ==
    /\ Ticked /\ ~last.scanned
    /\ settings.skip_ground_check_override
    /\ Pre.controller.skip_ground_check_timer = 0
    /\ \E i \in QualifyingUnder(last.world) : InFloatWindow(last.world[i].toi)
    /\ last.ground_cast = None /\ ~last.grounded

\* C17: on every tick with elapsed time > 0 a jump triggers (buffer timer
\* zeroed, ascent timer set to jump_time, skip timer set to
\* jump_skip_ground_check_duration) if and only if (rising edge, or buffer
\* timer > 0) and (grounded, or coyote timer > 0, or remaining_jumps > 0),
\* the buffer and coyote timers taken after this tick's own updates.
C17_TriggerCondition ==
    Ticked =>
        LET buffer == IF last.grounded THEN Pre.controller.jump_buffer_timer
                      ELSE IF RisingEdge THEN settings.jump_buffer_duration
                      ELSE Floor0(Pre.controller.jump_buffer_timer - last.dt)
            coyote == IF last.grounded THEN settings.coyote_time_duration
                      ELSE Floor0(Pre.controller.coyote_timer - last.dt)
            charges == IF last.grounded THEN settings.extra_jumps
                       ELSE Pre.controller.remaining_jumps
            due == /\ RisingEdge \/ buffer > 0
                   /\ last.grounded \/ coyote > 0 \/ charges > 0
        IN  /\ last.triggered <=> due
            /\ due => /\ controller.jump_buffer_timer = 0
                      /\ controller.jump_timer = settings.jump_time
                      /\ controller.skip_ground_check_timer
                            = settings.jump_skip_ground_check_duration
            /\ ~due => /\ controller.jump_buffer_timer = buffer
                       /\ controller.jump_timer <= Pre.controller.jump_timer
                       /\ controller.skip_ground_check_timer
                             <= Pre.controller.skip_ground_check_timer

\* a jump in the air on a charge alone: no ground, no coyote time left
C17_Witness ==
    /\ Ticked /\ RisingEdge /\ ~last.grounded
    /\ controller.coyote_timer = 0
    /\ Pre.controller.remaining_jumps > 0
    /\ last.triggered
    /\ controller.jump_buffer_timer = 0
    /\ controller.jump_timer = settings.jump_time

\* the call of the scan has returned
Scanned == probe.pc = "done"

\* C14: the scan loop terminates for every finite set of colliders (a call
\* makes at most one cast more than there are colliders, and returns), and
\* when it has returned the scratch list holds each collider the cast hits
\* (not the character, no sensor, within the cast length) exactly once, and
\* nothing else: nothing is left over from a previous scan.
C14_ScanTerminates ==
    /\ [](/\ probe.casts <= Len(probe.world) + 1
          /\ Scanned =>
                /\ \A i \in Visible(probe.world) :
                      Cardinality({ k \in DOMAIN ground_casts :
                                      ground_casts[k].entity = probe.world[i].entity }) = 1
                /\ \A k \in DOMAIN ground_casts :
                      \E i \in Visible(probe.world) :
                          ground_casts[k] = Hit(probe.world[i])
                /\ probe.casts = Len(ground_casts) + 1)
    /\ [](probe.pc = "clear" => <>Scanned)

\* a scan over two colliders in reach has returned, after a previous scan
\* had left an entry for a collider that is no longer there
C14_Witness ==
    /\ Scanned
    /\ Len(ground_casts) = 2 /\ probe.casts = 3
    /\ \E k \in DOMAIN probe.before :
          probe.before[k] \notin { Hit(probe.world[i]) : i \in DOMAIN probe.world }

\* what the loop body makes of `entity` when it is the only character of
\* the query and the scratch list is empty
Alone(entity) ==
    LET at == frame.start[entity]
        r == MoveEntity(entity, at.settings, at.controller, at.input, at.body, <<>>,
                        frame.dt, frame.world[entity], frame.contact[entity],
                        frame.phys[entity])
    IN  Components(at.settings, r.controller, r.input, r.body)

\* C15: with two characters in one tick, one possibly standing on the other,
\* in whatever order the query yields them: a character not yet processed
\* (or any character, when the elapsed time is 0) has its ControllerState,
\* ControllerInput and output impulse and torque as the tick found them,
\* whatever has been done to the other, and a processed character has them
\* as the loop body computes them from its own components and the physics
\* context alone, whether the other was processed before it or not.
C15_OrderIndependent ==
    \A e \in Both :
        Of(e) = IF frame.dt = 0 \/ e \in frame.todo THEN frame.start[e] ELSE Alone(e)

\* both processed, the mate standing on the character and jumping off it,
\* the character over a platform, the scan skipped for one of them
C15_Witness ==
    /\ frame.todo = {} /\ frame.dt > 0
    /\ \E i \in DOMAIN frame.world[Mate] : frame.world[Mate][i].entity = Character
    /\ frame.start[Mate].controller = Spawned(mate.settings)
    /\ mate.controller.jump_timer = mate.settings.jump_time
    /\ frame.start[Character].controller = Launched(settings)
    /\ settings.jump_skip_ground_check_duration > 0
    /\ ground_casts # <<>>
    /\ body.impulse # ZERO /\ mate.body.impulse # ZERO

\* C18 as stated: on a tick on which a jump triggers, for every up-axis
\* vector and every current velocity, the jump force is
\* (velocity . up) * up * -1 + jump_initial_force * up.
C18_Original ==
    (Ticked /\ last.triggered) =>
        last.jump = VAdd(VScale(VScale(settings.up_vector,
                                       Dot(last.linvel, settings.up_vector)), -1),
                         VScale(settings.up_vector, settings.jump_initial_force))

\* C19: from the initial state on, the number of jump triggers never
\* exceeds the number of rising edges of the jump button seen so far.
C19_JumpsWithinPresses ==
    tally.jumps <= tally.presses

\* a buffered press fires on a later tick without a rising edge, and every
\* press so far has been answered by a jump
C19_Witness ==
    /\ Ticked /\ last.triggered /\ ~RisingEdge
    /\ tally.jumps = tally.presses /\ tally.jumps = MaxPresses

\* C20 as stated: within one airborne period the number of jump triggers is
\* at most extra_jumps + 1.
C20_Original ==
    tally.air_jumps <= settings.extra_jumps + 1

====
